---------------------------- MODULE Spec2Model ----------------------------
(***************************************************************************)
(* A model of ngcccbase's deterministic wallet address manager             *)
(* (ngcccbase/deterministic.py) and of its UTXO fetchers                   *)
(* (ngcccbase/utxo_fetcher.py).                                            *)
(*                                                                         *)
(* The address manager is modelled statement by statement: every caller    *)
(* thread has a program counter (mpc) and the locals of the method it is   *)
(* in, so that a crash or another thread can fall between two statements.  *)
(* The configuration store is a key/value store whose assignment           *)
(* config[key] = value stores a durable copy of the value.                 *)
(***************************************************************************)
EXTENDS Integers, Sequences, FiniteSets, Bags, TLC

\* ------------------------------------------------------------------ bounds
\* highest max_index a caller is let to allocate past
MaxIndex == 1
\* longest genesis registry
MaxGenesis == 2
\* most ids the pending queue holds
MaxQueue == 2

\* ------------------------------------------------------------ color sets
\* color ids known to the colormap
Colors == {1, 2}

\* the color descriptor lists callers ask addresses for; <<1, 2>> and <<2, 1>>
\* describe the same color set
AllocDescs == {<<>>, <<1, 2>>, <<2, 1>>}

\* the color descriptor lists of the assets callers issue on genesis addresses
IssueDescs == {<<1>>, <<2>>}

\* ColorSet(colormap, color_desc_list).color_id_set
color_id_set(desc) == {desc[i] : i \in 1..Len(desc)}

\* ColorSet.equals: the same set of color ids
equals(d1, d2) == color_id_set(d1) = color_id_set(d2)

\* ColorSet.intersects: at least one color id in common
intersects(d1, d2) == color_id_set(d1) \cap color_id_set(d2) # {}

\* ColorSet.get_hash_string: a canonical string of the set of color ids
get_hash_string(desc) ==
    LET ids == color_id_set(desc)
    IN  CASE ids = {}     -> "h()"
          [] ids = {1}    -> "h(1)"
          [] ids = {2}    -> "h(2)"
          [] OTHER        -> "h(1,2)"

\* -------------------------------------------------------- address records
\* DeterministicAddressRecord.__init__: the string the HMAC is keyed on is
\* fixed at construction from the color set the record is built with
color_string(desc) ==
    IF Len(desc) = 0 THEN "genesis block" ELSE get_hash_string(desc)

\* a record built by DeterministicAddressRecord(master_key, color_set, index);
\* origin stands for the identity of the object: which method built it
DeterministicAddressRecord(origin, desc, index) ==
    [origin |-> origin, tag |-> color_string(desc), index |-> index,
     color_set |-> desc]

\* LooseAddressRecord(**addr_params): key material from outside the scheme
LooseAddressRecord(params) ==
    [origin |-> "loose", tag |-> params.address_data, index |-> -1,
     color_set |-> params.color_set]

\* AddressRecord.get_address: the address string is a pure function of the
\* HMAC input "<color_string>|<index>" (of the imported key for a loose one)
get_address(rec) == <<rec.tag, rec.index>>

\* ------------------------------------------------------------------ state
Threads == {1, 2}

VARIABLES
    \* the configuration store
    config_dwam,          \* config['dwam']: the persisted document
    config_master_key,    \* config['dw_master_key']
    config_addresses,     \* config['addresses']: one-off import descriptors
    \* DWalletAddressManager
    genesis_color_sets,   \* self.genesis_color_sets
    color_set_states,     \* self.color_set_states
    addresses,            \* self.addresses: a bag of records
    \* callers of the manager
    mpc,                  \* per thread: the statement it is at
    m_cs,                 \* per thread: the color_set argument
    m_idx,                \* per thread: local max_index / index
    m_k,                  \* per thread: position of the matching counter
    m_addr,               \* per thread: the record na it has built
    ret,                  \* per thread: what its last call returned, once it has
    \* history
    alloc_count,          \* per set of color ids: get_new_address calls returned
    gen_log,              \* genesis indices returned to callers, in order
    \* AsyncUTXOFetcher / ServerUTXOFetcher
    testnet,              \* model.testnet
    params_interface,     \* params['interface'], "absent" when not given
    interface,            \* self.interface: the class of the instance made
    variant,              \* which class the engine is: "async" or "server"
    backend,              \* the backend: "failing" (every call) or "flaky"
    address_list,         \* self.address_list
    hash_queue,           \* self.hash_queue
    running,              \* self.running
    lock,                 \* self.lock: "free" or its holder
    stop_evt,             \* self.stop_evt is set
    disconnected,         \* interface.disconnect() was called
    cpc,                  \* the caller: the statement it is at
    wpc,                  \* the worker thread: the statement it is at
    w_list,               \* worker: local address_list
    w_i,                  \* worker: position in the for loop
    w_txs,                \* worker: ids of get_utxo not yet handed to add_utxo
    w_exc,                \* worker: this sweep ended in the except clause
    upc,                  \* per executor of update(): the statement it is at
    u_any,                \* per executor: any_got_updates
    u_tx,                 \* per executor: txhash
    \* history of an update() call
    u_k,                  \* per executor: the queue when update() was called
    u_fed,                \* per executor: ids given to the store, with answers
    u_dist,               \* per executor: another thread used the queue meanwhile
    u_held                \* executors holding an id taken from the queue and
                          \* not yet given to the store, in the order of taking

mvars == <<config_dwam, config_master_key, config_addresses,
           genesis_color_sets, color_set_states, addresses,
           mpc, m_cs, m_idx, m_k, m_addr, ret, alloc_count, gen_log>>

fvars == <<testnet, params_interface, interface, variant, backend,
           address_list, hash_queue, running, lock, stop_evt, disconnected,
           cpc, wpc, w_list, w_i, w_txs, w_exc,
           upc, u_any, u_tx, u_k, u_fed, u_dist, u_held>>

vars == <<mvars, fvars>>

\* ------------------------------------------------------------ construction
\* init_new_wallet: the "dwam" document of a new wallet
init_new_wallet == [genesis_color_sets |-> <<>>, color_set_states |-> <<>>]

RECURSIVE genesis_from(_, _)
\* _import_genesis_addresses: genesis address i, tagged with slot i's colors
genesis_from(gcs, i) ==
    IF i > Len(gcs) THEN EmptyBag
    ELSE SetToBag({[DeterministicAddressRecord("genesis", <<>>, i - 1)
                       EXCEPT !.color_set = gcs[i]]})
         (+) genesis_from(gcs, i + 1)

_import_genesis_addresses(gcs) == genesis_from(gcs, 1)

\* xrange(max_index): the address at max_index is not rebuilt
ImportRange_short(max_index) == 0..(max_index - 1)

\* the indices _import_specific_color_addresses walks: xrange(max_index + 1)
ImportRange(max_index) == 0..max_index

RECURSIVE specific_from(_, _)
\* _import_specific_color_addresses: every index 0..max_index of every counter
specific_from(css, k) ==
    IF k > Len(css) THEN EmptyBag
    ELSE LET one(i) == SetToBag({DeterministicAddressRecord(
                                     "color", css[k].color_set, i)})
             RECURSIVE upto(_)
             upto(i) == IF i \notin ImportRange(css[k].max_index) THEN EmptyBag
                        ELSE one(i) (+) upto(i + 1)
         IN  upto(0) (+) specific_from(css, k + 1)

_import_specific_color_addresses(css) == specific_from(css, 1)

RECURSIVE loose_from(_, _)
\* _import_one_off_addresses_from_config: add_loose_address of every entry
loose_from(descs, k) ==
    IF k > Len(descs) THEN EmptyBag
    ELSE SetToBag({LooseAddressRecord(descs[k])}) (+) loose_from(descs, k + 1)

_import_one_off_addresses_from_config(descs) == loose_from(descs, 1)

\* DWalletAddressManager.__init__: the address space it materializes from the
\* "dwam" document and the one-off import list
Materialize(dwam, descs) ==
    _import_genesis_addresses(dwam.genesis_color_sets)
    (+) _import_specific_color_addresses(dwam.color_set_states)
    (+) _import_one_off_addresses_from_config(descs)

\* the record a thread holds when it holds none
NoRec == [origin |-> "none", tag |-> "", index |-> -1, color_set |-> <<>>]

NoRet == [op |-> "none", result |-> "none", rec |-> NoRec]

\* config['addresses']: one imported key, of an uncolored address
ImportList == <<[color_set |-> <<>>, address_data |-> "wif"]>>

\* the threads that run update(): the caller and the worker
Executors == {"c", "w"}

\* the service names make_interface knows
KnownNames ==
    {"chromanode", "helloblock", "blockchain.info", "abe_testnet", "electrum"}

\* the names make_interface keeps when model.testnet is set
TestnetNames == {"chromanode", "helloblock", "abe_testnet"}

\* the values of params['interface'] the engine is constructed with
ParamNames == KnownNames \cup {"absent", "bitcoind", ""}

\* params.get('interface', 'chromanode')
params_get(p) == IF p = "absent" THEN "chromanode" ELSE p

\* make_interface without the substitution made on testnet
make_interface_strict(net, p) ==
    LET use == params_get(p)
    IN  CASE use = "chromanode"      -> "ChromanodeInterface"
          [] use = "helloblock"      -> "HelloBlockInterface"
          [] use = "blockchain.info" -> "BlockchainInfoInterface"
          [] use = "abe_testnet"     -> "AbeInterface"
          [] use = "electrum"        -> "ElectrumInterface"
          [] OTHER                   -> "Exception"

\* make_interface(model, params): the class of the instance it returns, or
\* "Exception" when it raises
make_interface(net, p) ==
    LET got == params_get(p)
        use == IF net /\ got \notin TestnetNames THEN "chromanode" ELSE got
    IN  CASE use = "chromanode"      -> "ChromanodeInterface"
          [] use = "helloblock"      -> "HelloBlockInterface"
          [] use = "blockchain.info" -> "BlockchainInfoInterface"
          [] use = "abe_testnet"     -> "AbeInterface"
          [] use = "electrum"        -> "ElectrumInterface"
          [] OTHER                   -> "Exception"

\* AsyncUTXOFetcher.__init__: the engine as constructed
FetcherConstructed ==
    /\ testnet = FALSE
    /\ params_interface = "absent"
    /\ interface = make_interface(testnet, params_interface)
    /\ address_list = <<>>
    /\ hash_queue = <<>>
    /\ running = FALSE
    /\ lock = "free"
    /\ stop_evt = FALSE
    /\ disconnected = FALSE
    /\ cpc = "new"
    /\ wpc = "none"
    /\ w_list = <<>>
    /\ w_i = 0
    /\ w_txs = <<>>
    /\ w_exc = FALSE
    /\ upc = [x \in Executors |-> "none"]
    /\ u_any = [x \in Executors |-> FALSE]
    /\ u_tx = [x \in Executors |-> 0]
    /\ u_k = [x \in Executors |-> <<>>]
    /\ u_fed = [x \in Executors |-> <<>>]
    /\ u_dist = [x \in Executors |-> FALSE]
    /\ u_held = <<>>

\* the state after DWalletAddressManager.__init__ on an empty configuration:
\* init_new_wallet has stored a master key and the new wallet's document
ManagerConstructed ==
    /\ config_addresses = ImportList
    /\ config_master_key = "os.urandom(64)"
    /\ config_dwam = init_new_wallet
    /\ genesis_color_sets = init_new_wallet.genesis_color_sets
    /\ color_set_states = init_new_wallet.color_set_states
    /\ addresses = Materialize(init_new_wallet, config_addresses)
    /\ mpc = [t \in Threads |-> "idle"]
    /\ m_cs = [t \in Threads |-> <<>>]
    /\ m_idx = [t \in Threads |-> -1]
    /\ m_k = [t \in Threads |-> 0]
    /\ m_addr = [t \in Threads |-> NoRec]
    /\ ret = [t \in Threads |-> NoRet]
    /\ alloc_count = [ids \in SUBSET Colors |-> 0]
    /\ gen_log = <<>>

\* a new wallet, and an engine that is never started
MInit ==
    /\ ManagerConstructed
    /\ variant = "async"
    /\ backend = "flaky"
    /\ FetcherConstructed

\* ------------------------------------------------------------- operations
\* update_config without its assignment: config['dwam'] keeps the old document
update_config_unwritten == config_dwam

\* update_config: the document written to config['dwam']
update_config ==
    [genesis_color_sets |-> genesis_color_sets,
     color_set_states |-> color_set_states]

\* the position of the first counter whose color set equals desc, 0 if none
FindCounter(css, desc) ==
    IF \E k \in 1..Len(css) : equals(css[k].color_set, desc)
    THEN CHOOSE k \in 1..Len(css) :
            /\ equals(css[k].color_set, desc)
            /\ \A j \in 1..(k - 1) : ~equals(css[j].color_set, desc)
    ELSE 0

\* the counter of desc's color set as stored, -1 when it has none
CounterOf(css, desc) ==
    IF FindCounter(css, desc) = 0 THEN -1
    ELSE css[FindCounter(css, desc)].max_index

\* the counter is stored back without the increment
NextMaxIndex_same(max_index) == max_index

\* increment_max_index_for_color_set: max_index += 1
NextMaxIndex(max_index) == max_index + 1

\* increment_max_index_for_color_set: the counter a new color set starts at
FirstMaxIndex == 0

LocalsUnchanged == UNCHANGED <<m_cs, m_idx, m_k, m_addr>>
ConfigUnchanged == UNCHANGED <<config_dwam, config_master_key, config_addresses>>
HistoryUnchanged == UNCHANGED <<alloc_count, gen_log>>

\* a thread's locals after its call returned
Return(t, r) ==
    /\ mpc' = [mpc EXCEPT ![t] = "idle"]
    /\ m_cs' = [m_cs EXCEPT ![t] = <<>>]
    /\ m_idx' = [m_idx EXCEPT ![t] = -1]
    /\ m_k' = [m_k EXCEPT ![t] = 0]
    /\ m_addr' = [m_addr EXCEPT ![t] = NoRec]
    /\ ret' = [ret EXCEPT ![t] = r]

\* get_new_address(asset_or_color_set): the call, up to the call of
\* increment_max_index_for_color_set
get_new_address(t, cs) ==
    /\ mpc[t] = "idle"
    /\ UNCHANGED fvars
    /\ CounterOf(color_set_states, cs) < MaxIndex
    /\ mpc' = [mpc EXCEPT ![t] = "inc_find"]
    /\ m_cs' = [m_cs EXCEPT ![t] = cs]
    /\ ret' = [ret EXCEPT ![t] = NoRet]
    /\ UNCHANGED <<m_idx, m_k, m_addr, genesis_color_sets,
                   color_set_states, addresses>>
    /\ ConfigUnchanged /\ HistoryUnchanged

\* increment_max_index_for_color_set: the loop over the counters, up to the
\* read of the matching counter's max_index or to the end of the list
increment_find(t) ==
    /\ mpc[t] = "inc_find"
    /\ UNCHANGED fvars
    /\ LET k == FindCounter(color_set_states, m_cs[t])
       IN  IF k # 0
           THEN /\ m_k' = [m_k EXCEPT ![t] = k]
                /\ m_idx' = [m_idx EXCEPT ![t] =
                                NextMaxIndex(color_set_states[k].max_index)]
                /\ mpc' = [mpc EXCEPT ![t] = "inc_write"]
           ELSE /\ mpc' = [mpc EXCEPT ![t] = "inc_append"]
                /\ UNCHANGED <<m_k, m_idx>>
    /\ UNCHANGED <<m_cs, m_addr, ret, genesis_color_sets, color_set_states,
                   addresses>>
    /\ ConfigUnchanged /\ HistoryUnchanged

\* increment_max_index_for_color_set: color_set_st['max_index'] = max_index
increment_write(t) ==
    /\ mpc[t] = "inc_write"
    /\ UNCHANGED fvars
    /\ color_set_states' =
           [color_set_states EXCEPT ![m_k[t]].max_index = m_idx[t]]
    /\ mpc' = [mpc EXCEPT ![t] = "gna_add"]
    /\ UNCHANGED <<m_cs, m_idx, m_k, m_addr, ret, genesis_color_sets,
                   addresses>>
    /\ ConfigUnchanged /\ HistoryUnchanged

\* increment_max_index_for_color_set: no counter matched, append a new one
increment_append(t) ==
    /\ mpc[t] = "inc_append"
    /\ UNCHANGED fvars
    /\ color_set_states' =
           Append(color_set_states,
                  [color_set |-> m_cs[t], max_index |-> FirstMaxIndex])
    /\ m_idx' = [m_idx EXCEPT ![t] = FirstMaxIndex]
    /\ mpc' = [mpc EXCEPT ![t] = "gna_add"]
    /\ UNCHANGED <<m_cs, m_k, m_addr, ret, genesis_color_sets, addresses>>
    /\ ConfigUnchanged /\ HistoryUnchanged

\* get_new_address: build the record at the new index and add it
get_new_address_add(t) ==
    /\ mpc[t] = "gna_add"
    /\ UNCHANGED fvars
    /\ LET na == DeterministicAddressRecord("color", m_cs[t], m_idx[t])
       IN  /\ addresses' = addresses (+) SetToBag({na})
           /\ m_addr' = [m_addr EXCEPT ![t] = na]
    /\ mpc' = [mpc EXCEPT ![t] = "gna_persist"]
    /\ UNCHANGED <<m_cs, m_idx, m_k, ret, genesis_color_sets,
                   color_set_states>>
    /\ ConfigUnchanged /\ HistoryUnchanged

\* get_new_address: self.update_config(); return na
get_new_address_return(t) ==
    /\ mpc[t] = "gna_persist"
    /\ UNCHANGED fvars
    /\ config_dwam' = update_config
    /\ alloc_count' = [alloc_count EXCEPT ![color_id_set(m_cs[t])] = @ + 1]
    /\ Return(t, [op |-> "get_new_address", result |-> "ok",
                  rec |-> m_addr[t]])
    /\ UNCHANGED <<config_master_key, config_addresses, genesis_color_sets,
                   color_set_states, addresses, gen_log>>

\* get_genesis_address(genesis_index): a record of the colorless color set
get_genesis_address(genesis_index) ==
    DeterministicAddressRecord("genesis", <<>>, genesis_index)

\* get_new_genesis_address: index = len(...); genesis_color_sets.append([])
get_new_genesis_address(t) ==
    /\ mpc[t] = "idle"
    /\ UNCHANGED fvars
    /\ Len(genesis_color_sets) < MaxGenesis
    /\ m_idx' = [m_idx EXCEPT ![t] = Len(genesis_color_sets)]
    /\ genesis_color_sets' = Append(genesis_color_sets, <<>>)
    /\ mpc' = [mpc EXCEPT ![t] = "gen_persist"]
    /\ ret' = [ret EXCEPT ![t] = NoRet]
    /\ UNCHANGED <<m_cs, m_k, m_addr, color_set_states, addresses>>
    /\ ConfigUnchanged /\ HistoryUnchanged

\* get_new_genesis_address without its update_config call
get_new_genesis_address_unsaved(t) ==
    /\ mpc[t] = "gen_persist"
    /\ UNCHANGED fvars
    /\ mpc' = [mpc EXCEPT ![t] = "gen_add"]
    /\ UNCHANGED <<config_dwam, config_master_key, config_addresses,
                   genesis_color_sets, color_set_states, addresses, ret>>
    /\ LocalsUnchanged /\ HistoryUnchanged

\* get_new_genesis_address: self.update_config()
get_new_genesis_address_persist(t) ==
    /\ mpc[t] = "gen_persist"
    /\ UNCHANGED fvars
    /\ config_dwam' = update_config
    /\ mpc' = [mpc EXCEPT ![t] = "gen_add"]
    /\ UNCHANGED <<config_master_key, config_addresses, genesis_color_sets,
                   color_set_states, addresses, ret>>
    /\ LocalsUnchanged /\ HistoryUnchanged

\* get_new_genesis_address: derive the address, add it, return it
get_new_genesis_address_return(t) ==
    /\ mpc[t] = "gen_add"
    /\ UNCHANGED fvars
    /\ LET address == [get_genesis_address(m_idx[t])
                          EXCEPT !.index = m_idx[t]]
       IN  /\ addresses' = addresses (+) SetToBag({address})
           /\ Return(t, [op |-> "get_new_genesis_address", result |-> "ok",
                         rec |-> address])
    /\ gen_log' = Append(gen_log, m_idx[t])
    /\ UNCHANGED <<genesis_color_sets, color_set_states, alloc_count>>
    /\ ConfigUnchanged

\* the genesis address objects callers hold: update_genesis_address is
\* documented to take a genesis address
GenesisRecords == {r \in BagToSet(addresses) : r.origin = "genesis"}

\* update_genesis_address without its assert statement
update_genesis_address_unchecked(t, address, cs) ==
    /\ mpc[t] = "idle"
    /\ UNCHANGED fvars
    /\ address \in GenesisRecords
    /\ LET bound == [address EXCEPT !.color_set = cs]
       IN  /\ addresses' = (addresses (-) SetToBag({address}))
                               (+) SetToBag({bound})
           /\ genesis_color_sets' =
                  [genesis_color_sets EXCEPT ![address.index + 1] = cs]
           /\ config_dwam' =
                  [genesis_color_sets |-> genesis_color_sets',
                   color_set_states |-> color_set_states]
           /\ Return(t, [op |-> "update_genesis_address",
                         result |-> "ok", rec |-> bound])
           /\ UNCHANGED color_set_states
    /\ UNCHANGED <<config_master_key, config_addresses>>
    /\ HistoryUnchanged

\* update_genesis_address(address, color_set)
update_genesis_address(t, address, cs) ==
    /\ mpc[t] = "idle"
    /\ UNCHANGED fvars
    /\ address \in GenesisRecords
    /\ IF color_id_set(address.color_set) # {}
       THEN \* the assertion fails before anything is assigned
            /\ Return(t, [op |-> "update_genesis_address",
                          result |-> "AssertionError", rec |-> address])
            /\ UNCHANGED <<genesis_color_sets, color_set_states, addresses,
                           config_dwam>>
       ELSE LET bound == [address EXCEPT !.color_set = cs]
            IN  /\ addresses' = (addresses (-) SetToBag({address}))
                                    (+) SetToBag({bound})
                /\ genesis_color_sets' =
                       [genesis_color_sets EXCEPT ![address.index + 1] = cs]
                /\ config_dwam' =
                       [genesis_color_sets |-> genesis_color_sets',
                        color_set_states |-> color_set_states]
                /\ Return(t, [op |-> "update_genesis_address",
                              result |-> "ok", rec |-> bound])
                /\ UNCHANGED color_set_states
    /\ UNCHANGED <<config_master_key, config_addresses>>
    /\ HistoryUnchanged

\* a filter on the same set of color ids instead of on a common color id
get_addresses_for_color_set_exact(cs) ==
    {r \in BagToSet(addresses) : equals(cs, r.color_set)}

\* get_addresses_for_color_set: every record whose color set intersects
get_addresses_for_color_set(cs) ==
    {r \in BagToSet(addresses) : intersects(cs, r.color_set)}

\* get_some_address(color_set): acs[0] of the matching records (the set's
\* iteration order decides which), else get_new_address(color_set)
get_some_address(t, cs) ==
    /\ mpc[t] = "idle"
    /\ UNCHANGED fvars
    /\ LET acs == get_addresses_for_color_set(cs)
       IN  IF acs # {}
           THEN /\ \E r \in acs :
                      Return(t, [op |-> "get_some_address", result |-> "ok",
                                 rec |-> r])
                /\ UNCHANGED <<genesis_color_sets, color_set_states,
                               addresses>>
           ELSE /\ CounterOf(color_set_states, cs) < MaxIndex
                /\ mpc' = [mpc EXCEPT ![t] = "inc_find"]
                /\ m_cs' = [m_cs EXCEPT ![t] = cs]
                /\ ret' = [ret EXCEPT ![t] = NoRet]
                /\ UNCHANGED <<m_idx, m_k, m_addr, genesis_color_sets,
                               color_set_states, addresses>>
    /\ ConfigUnchanged /\ HistoryUnchanged

\* get_change_address(color_set): return self.get_some_address(color_set)
get_change_address(t, cs) == get_some_address(t, cs)

\* a new DWalletAddressManager on the configuration as persisted (the first
\* construction stored 'dwam', so params is not None)
Reconstruct ==
    /\ genesis_color_sets' = config_dwam.genesis_color_sets
    /\ color_set_states' = config_dwam.color_set_states
    /\ addresses' = Materialize(config_dwam, config_addresses)
    /\ mpc' = [t \in Threads |-> "idle"]
    /\ m_cs' = [t \in Threads |-> <<>>]
    /\ m_idx' = [t \in Threads |-> -1]
    /\ m_k' = [t \in Threads |-> 0]
    /\ m_addr' = [t \in Threads |-> NoRec]
    /\ ret' = [t \in Threads |-> NoRet]
    /\ ConfigUnchanged /\ HistoryUnchanged
    /\ UNCHANGED fvars

\* the process ends between two calls and the wallet is opened again
Restart ==
    /\ \A t \in Threads : mpc[t] = "idle"
    /\ Reconstruct

\* the process dies inside a call and the wallet is opened again
Crash ==
    /\ \E t \in Threads : mpc[t] # "idle"
    /\ Reconstruct

\* one statement of a call of thread t
ManagerStep(t) ==
    \/ \E cs \in AllocDescs : get_new_address(t, cs)
    \/ increment_find(t)
    \/ increment_write(t)
    \/ increment_append(t)
    \/ get_new_address_add(t)
    \/ get_new_address_return(t)
    \/ get_new_genesis_address(t)
    \/ get_new_genesis_address_persist(t)
    \/ get_new_genesis_address_return(t)
    \/ \E a \in GenesisRecords, cs \in IssueDescs :
           update_genesis_address(t, a, cs)
    \/ \E cs \in AllocDescs : get_some_address(t, cs)
    \/ \E cs \in AllocDescs : get_change_address(t, cs)

\* one caller, no crash
Next == ManagerStep(1) \/ Restart

Spec == MInit /\ [][Next]_vars

\* one statement of a call of thread t that allocates or binds an address
AllocatingStep(t) ==
    \/ \E cs \in AllocDescs : get_new_address(t, cs)
    \/ increment_find(t)
    \/ increment_write(t)
    \/ increment_append(t)
    \/ get_new_address_add(t)
    \/ get_new_address_return(t)
    \/ get_new_genesis_address(t)
    \/ get_new_genesis_address_persist(t)
    \/ get_new_genesis_address_return(t)
    \/ \E a \in GenesisRecords, cs \in IssueDescs :
           update_genesis_address(t, a, cs)

\* one caller; the process may die inside a call
NextCrash == AllocatingStep(1) \/ Restart \/ Crash

SpecCrash == MInit /\ [][NextCrash]_vars

\* several callers inside get_new_address at once
NextConc ==
    \E t \in Threads :
        \/ \E cs \in AllocDescs : get_new_address(t, cs)
        \/ increment_find(t)
        \/ increment_write(t)
        \/ increment_append(t)
        \/ get_new_address_add(t)
        \/ get_new_address_return(t)

SpecConc == MInit /\ [][NextConc]_vars

\* ------------------------------------------------------------ the fetchers
MUnchanged == UNCHANGED mvars

\* the wallets the engine is run on: persisted documents a manager has
\* written, with one and with two addresses of the color set <<1, 2>>
FetchWallets ==
    {[genesis_color_sets |-> <<>>,
      color_set_states |-> <<[color_set |-> <<1, 2>>, max_index |-> n]>>] :
        n \in 0..1}

\* self.model.get_address_manager() of a loaded wallet, and an engine of
\* either class on either kind of backend, constructed and not started
FInit ==
    /\ config_addresses = <<>>
    /\ config_master_key = "os.urandom(64)"
    /\ config_dwam \in FetchWallets
    /\ genesis_color_sets = config_dwam.genesis_color_sets
    /\ color_set_states = config_dwam.color_set_states
    /\ addresses = Materialize(config_dwam, config_addresses)
    /\ mpc = [t \in Threads |-> "idle"]
    /\ m_cs = [t \in Threads |-> <<>>]
    /\ m_idx = [t \in Threads |-> -1]
    /\ m_k = [t \in Threads |-> 0]
    /\ m_addr = [t \in Threads |-> NoRec]
    /\ ret = [t \in Threads |-> NoRet]
    /\ alloc_count = [ids \in SUBSET Colors |-> 0]
    /\ gen_log = <<>>
    /\ variant \in {"async", "server"}
    /\ backend \in {"failing", "flaky"}
    /\ FetcherConstructed

RECURSIVE Orders(_)
\* list(self.addresses): the records of the set in some iteration order
Orders(bag) ==
    IF bag = EmptyBag THEN {<<>>}
    ELSE UNION {{<<r>> \o rest : rest \in Orders(bag (-) SetToBag({r}))} :
                   r \in BagToSet(bag)}

\* get_all_addresses(), then [ar.get_address() for ar in addressrecords]
AddressLists ==
    {[i \in 1..Len(recs) |-> get_address(recs[i])] : recs \in Orders(addresses)}

\* what interface.get_utxo(address) may return when it does not raise
UtxoLists == {<<>>, <<1>>, <<1, 2>>}

\* the other executor of update()
Other(x) == IF x = "c" THEN "w" ELSE "c"

\* history: thread x used the queue; a call of update() by the other
\* executor no longer runs alone
Disturb(x) ==
    IF upc[Other(x)] # "none"
    THEN /\ u_dist' = [u_dist EXCEPT ![Other(x)] = TRUE]
         /\ u_k' = [u_k EXCEPT ![Other(x)] = <<>>]
         /\ u_fed' = [u_fed EXCEPT ![Other(x)] = <<>>]
    ELSE UNCHANGED <<u_dist, u_k, u_fed>>

\* any_got_updates = got_updates: only the last answer is kept
AnyGotUpdates_last(any, got) == got

\* update(): any_got_updates = any_got_updates or got_updates
AnyGotUpdates(any, got) == any \/ got

\* whether executor x may call update() now: the caller between its calls,
\* the ServerUTXOFetcher worker after its sweep
AtUpdateCall(x) ==
    IF x = "c" THEN cpc \in {"new", "ready", "stopped"}
    ELSE wpc = "update"

\* update(): with self.lock: refresh self.address_list; any_got_updates = False
update_refresh(x) ==
    /\ upc[x] = "none"
    /\ AtUpdateCall(x)
    /\ lock = "free"
    /\ address_list' \in AddressLists
    /\ upc' = [upc EXCEPT ![x] = "loop"]
    /\ u_any' = [u_any EXCEPT ![x] = FALSE]
    /\ u_k' = [u_k EXCEPT ![x] = hash_queue]
    /\ u_fed' = [u_fed EXCEPT ![x] = <<>>]
    /\ u_dist' = [u_dist EXCEPT ![x] = FALSE]
    /\ UNCHANGED u_held
    /\ UNCHANGED <<testnet, params_interface, interface, variant,
                   backend, hash_queue, running, lock, stop_evt,
                   disconnected, cpc, wpc, w_list, w_i, w_txs, w_exc, u_tx>>
    /\ MUnchanged

\* update(): while not self.hash_queue.empty(), and return any_got_updates
update_loop(x) ==
    /\ upc[x] = "loop"
    /\ IF hash_queue # <<>>
       THEN /\ upc' = [upc EXCEPT ![x] = "get"]
            /\ UNCHANGED <<u_any, u_k, u_fed, u_dist, wpc>>
       ELSE /\ upc' = [upc EXCEPT ![x] = "none"]
            /\ u_any' = [u_any EXCEPT ![x] = FALSE]
            /\ u_k' = [u_k EXCEPT ![x] = <<>>]
            /\ u_fed' = [u_fed EXCEPT ![x] = <<>>]
            /\ u_dist' = [u_dist EXCEPT ![x] = FALSE]
            /\ wpc' = IF x = "w" THEN "wait" ELSE wpc
    /\ UNCHANGED u_held
    /\ UNCHANGED <<testnet, params_interface, interface, variant,
                   backend, address_list, hash_queue, running, lock,
                   stop_evt, disconnected, cpc, w_list, w_i, w_txs, w_exc,
                   u_tx>>
    /\ MUnchanged

\* update(): txhash = self.hash_queue.get(), which blocks on an empty queue
update_get(x) ==
    /\ upc[x] = "get"
    /\ hash_queue # <<>>
    /\ u_tx' = [u_tx EXCEPT ![x] = Head(hash_queue)]
    /\ hash_queue' = Tail(hash_queue)
    /\ upc' = [upc EXCEPT ![x] = "ingest"]
    /\ u_held' = Append(u_held, x)
    /\ Disturb(x)
    /\ UNCHANGED <<testnet, params_interface, interface, variant,
                   backend, address_list, running, lock, stop_evt,
                   disconnected, cpc, wpc, w_list, w_i, w_txs, w_exc, u_any>>
    /\ MUnchanged

\* update(): got_updates = self.model.get_tx_db().add_tx_by_hash(txhash)
update_ingest(x) ==
    /\ upc[x] = "ingest"
    /\ \E got_updates \in BOOLEAN :
          /\ u_any' = [u_any EXCEPT ![x] = AnyGotUpdates(u_any[x], got_updates)]
          /\ u_fed' = [u_fed EXCEPT ![x] =
                          IF u_dist[x] THEN <<>>
                          ELSE Append(@, [tx |-> u_tx[x], got |-> got_updates])]
    /\ u_tx' = [u_tx EXCEPT ![x] = 0]
    /\ u_held' = SelectSeq(u_held, LAMBDA y : y # x)
    /\ upc' = [upc EXCEPT ![x] = "loop"]
    /\ UNCHANGED <<testnet, params_interface, interface, variant,
                   backend, address_list, hash_queue, running, lock,
                   stop_evt, disconnected, cpc, wpc, w_list, w_i, w_txs, w_exc,
                   u_k, u_dist>>
    /\ MUnchanged

\* start_thread(): the thread is started; thread_loop has run no statement
start_thread ==
    /\ cpc = "new"
    /\ upc["c"] = "none"
    /\ cpc' = "ready"
    /\ wpc' = "init"
    /\ UNCHANGED u_held
    /\ UNCHANGED <<testnet, params_interface, interface, variant,
                   backend, address_list, hash_queue, running, lock,
                   stop_evt, disconnected, w_list, w_i, w_txs, w_exc,
                   upc, u_any, u_tx, u_k, u_fed, u_dist>>
    /\ MUnchanged

\* stop(): with self.lock: self.disconnect()
stop_disconnect ==
    /\ cpc = "ready"
    /\ upc["c"] = "none"
    /\ lock = "free"
    /\ lock' = "stop"
    /\ disconnected' = TRUE
    /\ cpc' = "stop_locked"
    /\ UNCHANGED u_held
    /\ UNCHANGED <<testnet, params_interface, interface, variant,
                   backend, address_list, hash_queue, running,
                   stop_evt, wpc, w_list, w_i, w_txs, w_exc,
                   upc, u_any, u_tx, u_k, u_fed, u_dist>>
    /\ MUnchanged

\* stop(): self.running = False, and the lock is released
stop_clear ==
    /\ cpc = "stop_locked"
    /\ running' = FALSE
    /\ lock' = "free"
    /\ cpc' = "stop_set"
    /\ UNCHANGED u_held
    /\ UNCHANGED <<testnet, params_interface, interface, variant,
                   backend, address_list, hash_queue, stop_evt,
                   disconnected, wpc, w_list, w_i, w_txs, w_exc,
                   upc, u_any, u_tx, u_k, u_fed, u_dist>>
    /\ MUnchanged

\* stop(): self.stop_evt.set()
stop_set ==
    /\ cpc = "stop_set"
    /\ stop_evt' = TRUE
    /\ cpc' = "join"
    /\ UNCHANGED u_held
    /\ UNCHANGED <<testnet, params_interface, interface, variant,
                   backend, address_list, hash_queue, running, lock,
                   disconnected, wpc, w_list, w_i, w_txs, w_exc,
                   upc, u_any, u_tx, u_k, u_fed, u_dist>>
    /\ MUnchanged

\* stop() without its join
Joined_nowait == TRUE

\* whether self.thread.join() returns: the thread has ended
Joined == wpc = "exited"

\* stop(): self.thread.join(), and stop() returns
stop_join ==
    /\ cpc = "join"
    /\ Joined
    /\ cpc' = "stopped"
    /\ UNCHANGED u_held
    /\ UNCHANGED <<testnet, params_interface, interface, variant,
                   backend, address_list, hash_queue, running, lock,
                   stop_evt, disconnected, wpc, w_list, w_i, w_txs, w_exc,
                   upc, u_any, u_tx, u_k, u_fed, u_dist>>
    /\ MUnchanged

\* thread_loop: with self.lock: self.running = True
thread_loop_init ==
    /\ wpc = "init"
    /\ lock = "free"
    /\ running' = TRUE
    /\ wpc' = "check"
    /\ UNCHANGED u_held
    /\ UNCHANGED <<testnet, params_interface, interface, variant,
                   backend, address_list, hash_queue, lock, stop_evt,
                   disconnected, cpc, w_list, w_i, w_txs, w_exc,
                   upc, u_any, u_tx, u_k, u_fed, u_dist>>
    /\ MUnchanged

\* thread_loop: while self.is_running()
thread_loop_while ==
    /\ wpc = "check"
    /\ lock = "free"
    /\ wpc' = IF running THEN "snapshot" ELSE "exited"
    /\ UNCHANGED u_held
    /\ UNCHANGED <<testnet, params_interface, interface, variant,
                   backend, address_list, hash_queue, running, lock,
                   stop_evt, disconnected, cpc, w_list, w_i, w_txs, w_exc,
                   upc, u_any, u_tx, u_k, u_fed, u_dist>>
    /\ MUnchanged

\* thread_loop: with self.lock: address_list = self.address_list[:]
thread_loop_snapshot ==
    /\ wpc = "snapshot"
    /\ lock = "free"
    /\ w_list' = address_list
    /\ w_i' = 1
    /\ w_txs' = <<>>
    /\ w_exc' = FALSE
    /\ wpc' = "for"
    /\ UNCHANGED u_held
    /\ UNCHANGED <<testnet, params_interface, interface, variant,
                   backend, address_list, hash_queue, running, lock,
                   stop_evt, disconnected, cpc,
                   upc, u_any, u_tx, u_k, u_fed, u_dist>>
    /\ MUnchanged

\* a ServerUTXOFetcher.thread_loop without its self.update() call
AfterSweep_plain == "wait"

\* where the worker goes when the try statement is left: ServerUTXOFetcher
\* calls self.update() before the wait
AfterSweep == IF variant = "server" THEN "update" ELSE "wait"

\* thread_loop: for address in address_list: if not self.is_running(): return
thread_loop_for ==
    /\ wpc = "for"
    /\ IF w_i > Len(w_list)
       THEN wpc' = AfterSweep
       ELSE /\ lock = "free"
            /\ wpc' = IF running THEN "scan" ELSE "exited"
    /\ UNCHANGED u_held
    /\ UNCHANGED <<testnet, params_interface, interface, variant,
                   backend, address_list, hash_queue, running, lock,
                   stop_evt, disconnected, cpc, w_list, w_i, w_txs, w_exc,
                   upc, u_any, u_tx, u_k, u_fed, u_dist>>
    /\ MUnchanged

\* no except clause: the error ends the thread
thread_loop_uncaught ==
    /\ w_exc' = TRUE
    /\ wpc' = "exited"
    /\ UNCHANGED <<w_i, w_txs, hash_queue>>

\* a try statement inside the for loop: the loop goes on with the next address
thread_loop_except_inside ==
    /\ w_exc' = TRUE
    /\ w_i' = w_i + 1
    /\ wpc' = "for"
    /\ UNCHANGED <<w_txs, hash_queue>>

\* thread_loop: the except clause, entered from the scan of address w_i:
\* print e, and the try statement (with its for loop) is left
thread_loop_except ==
    /\ w_exc' = TRUE
    /\ wpc' = AfterSweep
    /\ UNCHANGED <<w_i, w_txs, hash_queue>>

\* scan_address: self.interface.get_utxo(address) returned txids
scan_address_found(txids) ==
    /\ Len(hash_queue) + Len(txids) <= MaxQueue
    /\ IF txids = <<>>
       THEN /\ w_i' = w_i + 1
            /\ wpc' = "for"
            /\ UNCHANGED w_txs
       ELSE /\ w_txs' = txids
            /\ wpc' = "put"
            /\ UNCHANGED w_i
    /\ UNCHANGED <<w_exc, hash_queue>>

\* scan_address(address): the call of self.interface.get_utxo(address)
scan_address ==
    /\ wpc = "scan"
    /\ \/ thread_loop_except
       \/ /\ backend # "failing"
          /\ \E txids \in UtxoLists : scan_address_found(txids)
    /\ UNCHANGED u_held
    /\ UNCHANGED <<testnet, params_interface, interface, variant,
                   backend, address_list, running, lock, stop_evt,
                   disconnected, cpc, w_list,
                   upc, u_any, u_tx, u_k, u_fed, u_dist>>
    /\ MUnchanged

\* scan_address: self.add_utxo(address, txid), i.e. self.hash_queue.put(txid)
add_utxo ==
    /\ wpc = "put"
    /\ hash_queue' = Append(hash_queue, Head(w_txs))
    /\ w_txs' = Tail(w_txs)
    /\ IF Tail(w_txs) = <<>>
       THEN w_i' = w_i + 1 /\ wpc' = "for"
       ELSE UNCHANGED <<w_i, wpc>>
    /\ Disturb("w")
    /\ UNCHANGED u_held
    /\ UNCHANGED <<testnet, params_interface, interface, variant,
                   backend, address_list, running, lock, stop_evt,
                   disconnected, cpc, w_list, w_exc, upc, u_any, u_tx>>
    /\ MUnchanged

\* thread_loop: self.stop_evt.wait(self.sleep_time) returns, the event set
\* or the time over
thread_loop_wait ==
    /\ wpc = "wait"
    /\ wpc' = "check"
    /\ UNCHANGED u_held
    /\ UNCHANGED <<testnet, params_interface, interface, variant,
                   backend, address_list, hash_queue, running, lock,
                   stop_evt, disconnected, cpc, w_list, w_i, w_txs, w_exc,
                   upc, u_any, u_tx, u_k, u_fed, u_dist>>
    /\ MUnchanged

\* the worker thread's statements
WorkerNext ==
    \/ thread_loop_init
    \/ thread_loop_while
    \/ thread_loop_snapshot
    \/ thread_loop_for
    \/ scan_address
    \/ add_utxo
    \/ thread_loop_wait
    \/ update_refresh("w")
    \/ update_loop("w")
    \/ update_get("w")
    \/ update_ingest("w")

\* the statements of a stop() call under way
StopNext == stop_clear \/ stop_set \/ stop_join

\* the statements of an update() call of the caller under way
CallerUpdateNext == update_loop("c") \/ update_get("c") \/ update_ingest("c")

FNext ==
    \/ start_thread
    \/ stop_disconnect
    \/ update_refresh("c")
    \/ WorkerNext
    \/ StopNext
    \/ CallerUpdateNext

SpecFetcher == FInit /\ [][FNext]_vars

\* threads are scheduled fairly: the worker, a stop() and an update() under
\* way each take their next step when they can
FairFetcher ==
    /\ FInit
    /\ [][FNext]_vars
    /\ WF_vars(WorkerNext)
    /\ WF_vars(StopNext)
    /\ WF_vars(CallerUpdateNext)

\* a caller of the manager allocating addresses of the wallet's color set
\* while the engine runs
AllocNext ==
    \/ get_new_address(1, <<1, 2>>)
    \/ increment_find(1)
    \/ increment_write(1)
    \/ get_new_address_add(1)
    \/ get_new_address_return(1)

\* an engine that is started and left to itself: nobody calls update() or
\* stop() from outside
NextDiscover == start_thread \/ WorkerNext \/ AllocNext

\* the worker thread is scheduled fairly
FairDiscover ==
    /\ FInit
    /\ [][NextDiscover]_vars
    /\ WF_vars(WorkerNext)

\* a wallet with one address, and the parameters an engine of either class is
\* about to be constructed with
CInit ==
    /\ config_addresses = <<>>
    /\ config_master_key = "os.urandom(64)"
    /\ config_dwam = [genesis_color_sets |-> <<>>,
                      color_set_states |->
                          <<[color_set |-> <<1, 2>>, max_index |-> 0]>>]
    /\ genesis_color_sets = config_dwam.genesis_color_sets
    /\ color_set_states = config_dwam.color_set_states
    /\ addresses = Materialize(config_dwam, config_addresses)
    /\ mpc = [t \in Threads |-> "idle"]
    /\ m_cs = [t \in Threads |-> <<>>]
    /\ m_idx = [t \in Threads |-> -1]
    /\ m_k = [t \in Threads |-> 0]
    /\ m_addr = [t \in Threads |-> NoRec]
    /\ ret = [t \in Threads |-> NoRet]
    /\ alloc_count = [ids \in SUBSET Colors |-> 0]
    /\ gen_log = <<>>
    /\ testnet \in BOOLEAN
    /\ params_interface \in ParamNames
    /\ interface = "none"
    /\ variant \in {"async", "server"}
    /\ backend = "flaky"
    /\ address_list = <<>>
    /\ hash_queue = <<>>
    /\ running = FALSE
    /\ lock = "free"
    /\ stop_evt = FALSE
    /\ disconnected = FALSE
    /\ cpc = "unbuilt"
    /\ wpc = "none"
    /\ w_list = <<>>
    /\ w_i = 0
    /\ w_txs = <<>>
    /\ w_exc = FALSE
    /\ upc = [x \in Executors |-> "none"]
    /\ u_any = [x \in Executors |-> FALSE]
    /\ u_tx = [x \in Executors |-> 0]
    /\ u_k = [x \in Executors |-> <<>>]
    /\ u_fed = [x \in Executors |-> <<>>]
    /\ u_dist = [x \in Executors |-> FALSE]
    /\ u_held = <<>>

\* AsyncUTXOFetcher.__init__(model, params): make_interface first; when it
\* raises, no engine exists; otherwise the fields are set
AsyncUTXOFetcher_init ==
    /\ cpc = "unbuilt"
    /\ LET made == make_interface(testnet, params_interface)
       IN  IF made = "Exception"
           THEN /\ cpc' = "failed"
                /\ UNCHANGED <<interface, hash_queue, address_list, running,
                               lock, stop_evt>>
           ELSE /\ interface' = made
                /\ hash_queue' = <<>>
                /\ address_list' = <<>>
                /\ running' = FALSE
                /\ lock' = "free"
                /\ stop_evt' = FALSE
                /\ cpc' = "new"
    /\ UNCHANGED <<testnet, params_interface, variant, backend, disconnected,
                   wpc, w_list, w_i, w_txs, w_exc,
                   upc, u_any, u_tx, u_k, u_fed, u_dist, u_held>>
    /\ MUnchanged

\* the construction of an engine, and what is done with it afterwards
NextConstruct == AsyncUTXOFetcher_init \/ FNext

SpecConstruct == CInit /\ [][NextConstruct]_vars

\* ------------------------------------------------------------------ claims
\* what identifies a deterministic record: the HMAC input and its color tag
Project(bag) ==
    {[tag |-> r.tag, index |-> r.index, ids |-> color_id_set(r.color_set)] :
        r \in {x \in BagToSet(bag) : x.origin # "loose"}}

DetCount(bag) ==
    BagCardinality(bag) - Cardinality({x \in BagToSet(bag) : x.origin = "loose"})

\* C6: under sequential use the Nth get_new_address for a color set returns
\* index N-1 (the first returns 0) whatever other calls come between, the
\* persisted counter of that color set equals the index returned, and no
\* stored max_index ever decreases.
CounterMonotonicity ==
    /\ [](\A t \in Threads :
            ret[t].op = "get_new_address" =>
              /\ ret[t].rec.index =
                     alloc_count[color_id_set(ret[t].rec.color_set)] - 1
              /\ CounterOf(config_dwam.color_set_states, ret[t].rec.color_set)
                     = ret[t].rec.index)
    /\ [][\A cs \in AllocDescs :
            CounterOf(color_set_states', cs) >= CounterOf(color_set_states, cs)
         ]_vars

\* the second allocation for {1, 2}, asked under another descriptor order and
\* after a genesis address was created, has returned index 1
CounterMonotonicityWitness ==
    /\ ret[1].op = "get_new_address"
    /\ ret[1].rec.index = 1
    /\ ret[1].rec.color_set = <<2, 1>>
    /\ color_set_states[1].color_set = <<1, 2>>
    /\ Len(genesis_color_sets) > 0
    /\ Len(color_set_states) = 2

\* C7: between calls, a fresh manager built from the persisted document (and
\* the same import list) materializes exactly the deterministic addresses the
\* running manager holds: the same (tag, index) with the same color sets.
RestartFidelity ==
    (\A t \in Threads : mpc[t] = "idle") =>
        /\ Project(Materialize(config_dwam, config_addresses))
               = Project(addresses)
        /\ DetCount(Materialize(config_dwam, config_addresses))
               = DetCount(addresses)

\* addresses of two color sets and a genesis address bound to an asset
RestartFidelityWitness ==
    /\ \A t \in Threads : mpc[t] = "idle"
    /\ Len(color_set_states) = 2
    /\ \E k \in 1..Len(color_set_states) : color_set_states[k].max_index = 1
    /\ \E i \in 1..Len(genesis_color_sets) : genesis_color_sets[i] # <<>>
    /\ DetCount(addresses) >= 4

\* C8: concurrent get_new_address calls for one color set never return the
\* same index, and the counter list never holds two counters for one color
\* set.
AtMostOneAllocation ==
    /\ \A j, k \in 1..Len(color_set_states) :
          j # k => ~equals(color_set_states[j].color_set,
                           color_set_states[k].color_set)
    /\ \A t, u \in Threads :
          (/\ t # u
           /\ ret[t].op = "get_new_address"
           /\ ret[u].op = "get_new_address"
           /\ equals(ret[t].rec.color_set, ret[u].rec.color_set))
          => ret[t].rec.index # ret[u].rec.index

\* C10: whatever statement the process dies at, every genesis index a caller
\* was given is in the address space (as reloaded, after a crash), and
\* get_new_genesis_address never returns an index it returned before.
GenesisCrashSafety ==
    /\ \A i \in 1..Len(gen_log) :
          \E r \in BagToSet(addresses) :
              r.origin = "genesis" /\ r.index = gen_log[i]
    /\ \A i, j \in 1..Len(gen_log) : i # j => gen_log[i] # gen_log[j]

\* the process died after the append of slot 0 was persisted and before the
\* address was returned; the next call returned index 1
GenesisCrashSafetyWitness ==
    /\ gen_log = <<1>>
    /\ Len(config_dwam.genesis_color_sets) = 2
    /\ \A t \in Threads : mpc[t] = "idle"

\* C1: once stop() has returned, the engine calls interface.get_utxo no more.
StopSafety ==
    [][cpc = "stopped" => ~(wpc = "scan" /\ wpc' # "scan")]_vars

\* stop() has returned on an engine whose worker had fetched ids
StopSafetyWitness ==
    /\ cpc = "stopped"
    /\ hash_queue # <<>>
    /\ Len(w_list) = 2

\* C2: under fair scheduling a stop() called after start_thread() returns,
\* with the worker thread ended.
StopTerminates ==
    (cpc = "stop_locked") ~> (cpc = "stopped" /\ wpc = "exited")

\* the addresses of the snapshot the current sweep has called get_utxo for
Attempted == IF w_exc THEN w_i ELSE w_i - 1

FaultTolerance ==
    /\ [](wpc = "exited" => ~running)
    /\ (backend = "failing" /\ w_exc /\ wpc \in {"wait", "update"})
          ~> (wpc \in {"snapshot", "exited"})
    /\ (backend = "failing" /\ cpc = "stop_locked" /\ wpc # "init")
          ~> (wpc = "exited")

\* every call failed, the worker went on, and stop() has ended it
FaultToleranceWitness ==
    /\ backend = "failing"
    /\ w_exc
    /\ Len(w_list) = 2
    /\ wpc = "exited"
    /\ cpc = "stopped"

\* the ids an update() call has given to the store, in order
FedIds(x) == [i \in 1..Len(u_fed[x]) |-> u_fed[x][i].tx]

\* whether the store reported new data for one of them
AnyNew(x) == \E i \in 1..Len(u_fed[x]) : u_fed[x][i].got

\* C5: an update() call during which no other thread uses the queue gives
\* the store exactly the ids queued at the call, leaves the queue empty and
\* returns true iff the store reported new data for at least one of them.
UpdateResult ==
    [][\A x \in Executors :
          (upc[x] = "loop" /\ upc'[x] = "none" /\ ~u_dist[x]) =>
              /\ hash_queue' = <<>>
              /\ FedIds(x) = u_k[x]
              /\ u_any[x] = AnyNew(x)
      ]_vars

\* update() is about to return after two ids, the first new, the second not
UpdateResultWitness ==
    /\ upc["c"] = "loop"
    /\ hash_queue = <<>>
    /\ ~u_dist["c"]
    /\ Len(u_k["c"]) = 2
    /\ Len(u_fed["c"]) = 2
    /\ u_fed["c"][1].got
    /\ ~u_fed["c"][2].got

\* C9: once stop() has set running to false it is never true again and the
\* worker starts no new sweep.
StoppedIsTerminal ==
    [][(cpc \in {"stop_set", "join", "stopped"}) =>
          (running' = FALSE /\ ~(wpc = "check" /\ wpc' = "snapshot"))]_vars

\* the mutating calls of the manager
MutatingOps ==
    {"get_new_address", "get_new_genesis_address", "update_genesis_address"}

\* C11: when get_new_address, get_new_genesis_address or update_genesis_address
\* has returned normally to a caller that has the manager to itself, the
\* document stored under 'dwam' is exactly the manager's genesis_color_sets
\* and color_set_states; the document never has another key, and the master
\* key is stored under its own key.
WriteThrough ==
    /\ DOMAIN config_dwam = {"genesis_color_sets", "color_set_states"}
    /\ config_master_key = "os.urandom(64)"
    /\ \A t \in Threads :
          (ret[t].op \in MutatingOps /\ ret[t].result = "ok") =>
              /\ config_dwam.genesis_color_sets = genesis_color_sets
              /\ config_dwam.color_set_states = color_set_states

\* a genesis address was bound to an asset after addresses were allocated
WriteThroughWitness ==
    /\ ret[1].op = "update_genesis_address"
    /\ ret[1].result = "ok"
    /\ Len(color_set_states) = 2
    /\ \E k \in 1..Len(color_set_states) : color_set_states[k].max_index = 1
    /\ Len(genesis_color_sets) = 2

\* C12: update_genesis_address on a genesis address that already has colors
\* fails its assertion and changes nothing (address space, registry, counters,
\* persisted document); on a colorless genesis address it gives the address
\* and the registry slot address.index the new color set, persists, and
\* leaves the other slots and the counters as they were.
BindGenesisContract ==
    [][\A t \in Threads :
          (ret'[t].op = "update_genesis_address" /\ ret'[t] # ret[t]) =>
              LET b == ret'[t].rec
                  a == [b EXCEPT !.color_set = <<>>]
              IN  IF ret'[t].result = "AssertionError"
                  THEN /\ color_id_set(b.color_set) # {}
                       /\ b \in BagToSet(addresses)
                       /\ addresses' = addresses
                       /\ genesis_color_sets' = genesis_color_sets
                       /\ color_set_states' = color_set_states
                       /\ config_dwam' = config_dwam
                  ELSE /\ ret'[t].result = "ok"
                       /\ a \in BagToSet(addresses)
                       /\ addresses' = (addresses (-) SetToBag({a}))
                                           (+) SetToBag({b})
                       /\ Len(genesis_color_sets') = Len(genesis_color_sets)
                       /\ \A i \in 1..Len(genesis_color_sets) :
                             genesis_color_sets'[i] =
                                 IF i = b.index + 1 THEN b.color_set
                                 ELSE genesis_color_sets[i]
                       /\ color_set_states' = color_set_states
                       /\ config_dwam'.genesis_color_sets = genesis_color_sets'
                       /\ config_dwam'.color_set_states = color_set_states
      ]_vars

\* the second bind of genesis address 0 has failed; slot 1 is colorless and
\* a counter exists
BindGenesisContractWitness ==
    /\ ret[1].op = "update_genesis_address"
    /\ ret[1].result = "AssertionError"
    /\ ret[1].rec.index = 0
    /\ genesis_color_sets = <<ret[1].rec.color_set, <<>>>>
    /\ Len(color_set_states) > 0

\* the statements of get_new_address, from its call to its return
InGetNewAddress ==
    {"inc_find", "inc_write", "inc_append", "gna_add", "gna_persist"}

\* C13: when a record of the address space intersects the query,
\* get_some_address and get_change_address return such a record and change
\* neither counters, registry, address space nor persisted document; when
\* none does, the call is a get_new_address call for the query, which adds
\* one record to the address space.
ReuseFirst ==
    /\ [][\A t \in Threads, cs \in AllocDescs :
            (/\ mpc[t] = "idle"
             /\ mpc'[t] = "inc_find" \/ ret'[t].op = "get_some_address"
             /\ get_some_address(t, cs) \/ get_change_address(t, cs)) =>
              IF \E r \in BagToSet(addresses) : intersects(cs, r.color_set)
              THEN /\ ret'[t].op = "get_some_address"
                   /\ ret'[t].rec \in BagToSet(addresses)
                   /\ intersects(cs, ret'[t].rec.color_set)
                   /\ UNCHANGED <<color_set_states, genesis_color_sets,
                                  addresses, config_dwam, config_master_key,
                                  config_addresses>>
              ELSE get_new_address(t, cs)
         ]_vars
    /\ [][\A t \in Threads :
            mpc[t] \in InGetNewAddress =>
              BagCardinality(addresses') = BagCardinality(addresses)
                  + (IF mpc[t] = "gna_add" THEN 1 ELSE 0)
         ]_vars

\* a query for {1, 2} was answered with the genesis address bound to {1};
\* no address was ever allocated
ReuseFirstWitness ==
    /\ ret[1].op = "get_some_address"
    /\ ret[1].rec.origin = "genesis"
    /\ ret[1].rec.color_set = <<1>>
    /\ color_set_states = <<>>
    /\ config_dwam.color_set_states = <<>>

\* the service name the constructor was asked for
AskedName == IF params_interface = "absent" THEN "chromanode"
             ELSE params_interface

\* C14 as claimed: with a name that is not a known one the construction
\* fails and no backend instance is made, whatever the network flag.
UnknownNameIsFatal ==
    (cpc # "unbuilt" /\ AskedName \notin KnownNames) =>
        (cpc = "failed" /\ interface = "none")

\* C14 as amended: on mainnet a name that is not a known one makes the
\* construction fail before an instance is made, and nothing of the engine
\* ever runs; on testnet every name other than chromanode, helloblock and
\* abe_testnet, unknown ones included, is replaced by chromanode and the
\* construction succeeds; the construction fails in no other case.
UnknownNameIsFatalOnMainnet ==
    cpc # "unbuilt" =>
        /\ (~testnet /\ AskedName \notin KnownNames) =>
               /\ cpc = "failed"
               /\ interface = "none"
               /\ wpc = "none"
               /\ ~disconnected
        /\ (testnet /\ AskedName \notin TestnetNames) =>
               /\ cpc # "failed"
               /\ interface = "ChromanodeInterface"
        /\ cpc = "failed" => (~testnet /\ AskedName \notin KnownNames)

\* an engine asked for with an unknown name on testnet was constructed, has
\* fetched ids and was stopped
UnknownNameIsFatalOnMainnetWitness ==
    /\ testnet
    /\ params_interface = "bitcoind"
    /\ interface = "ChromanodeInterface"
    /\ hash_queue # <<>>
    /\ cpc = "stopped"

\* C15: once stop() has set running to false, no is_running() check of the
\* worker passes any more: it goes from no check into a scan (so at most the
\* scan whose check had passed before is still begun) and it begins no
\* further sweep.
BoundedCancellation ==
    [][(cpc \in {"stop_set", "join", "stopped"}) =>
          /\ ~(wpc = "for" /\ wpc' = "scan")
          /\ ~(wpc = "check" /\ wpc' = "snapshot")]_vars

\* the address strings the wallet's color set can have
AddrStrings == {<<get_hash_string(<<1, 2>>), i>> : i \in 0..MaxIndex}

\* the manager has a record with this address string
Known(a) == \E r \in BagToSet(addresses) : get_address(r) = a

\* the worker is at the get_utxo call for this address
Scanning(a) == wpc = "scan" /\ w_list[w_i] = a

\* the worker begins a sweep whose snapshot holds this address
SweepHolds(a) ==
    /\ wpc = "for"
    /\ w_i = 1
    /\ \E i \in 1..Len(w_list) : w_list[i] = a

\* the sweep under way has this address still before it
Ahead(a) ==
    /\ wpc = "for"
    /\ \E i \in w_i..Len(w_list) : w_list[i] = a

QueueDrain ==
    [][/\ \A x \in Executors :
             /\ (upc[x] = "get" /\ upc'[x] = "ingest") =>
                    /\ u_tx'[x] = Head(hash_queue)
                    /\ hash_queue' = Tail(hash_queue)
             /\ (upc[x] = "ingest" /\ upc'[x] = "loop") => Head(u_held) = x
             /\ (upc[x] = "loop" /\ upc'[x] = "none") => hash_queue = <<>>
       /\ hash_queue' # hash_queue =>
             \/ \E x \in Executors : upc[x] = "get" /\ upc'[x] = "ingest"
             \/ /\ wpc = "put"
                /\ hash_queue' = Append(hash_queue, Head(w_txs))
      ]_vars

\* C18: once stop() has called interface.disconnect(), the worker makes no
\* get_utxo call.
NoUseAfterDisconnect ==
    [][disconnected => ~(wpc = "scan" /\ wpc' # "scan")]_vars

\* C19: under fair scheduling no executor of update() stays in
\* hash_queue.get(): the call it made after finding the queue non-empty
\* returns.
UpdateNeverBlocks ==
    \A x \in Executors : (upc[x] = "get") ~> (upc[x] # "get")

\* C20: no two deterministic records of the address space were derived from
\* the same scope tag and index: each is there once, and two different ones
\* differ in the HMAC input.
UniqueDerivation ==
    \A r1, r2 \in BagToSet(addresses) :
        (r1.origin # "loose" /\ r2.origin # "loose") =>
            /\ CopiesIn(r1, addresses) = 1
            /\ r1 # r2 => get_address(r1) # get_address(r2)

=============================================================================
